---- MODULE Spec2Model ----
(***************************************************************************)
(* Model of the Clean Slate participant API server (src/server.js): an     *)
(* Express application holding an in-memory list of participants and an    *)
(* id counter, with its routes in registration order.                      *)
(*                                                                         *)
(* JavaScript strings are sequences of UTF-16 code units (numbers), so     *)
(* that parseInt, split, includes, toLowerCase and decodeURIComponent are   *)
(* computed unit by unit.  JavaScript values are tagged records.            *)
(***************************************************************************)
EXTENDS Integers, Sequences, FiniteSets, TLC

\* ------------------------------------------------------------------ bounds

\* Largest number of records the collection holds in the model.
MaxParticipants == 2

\* Largest value of the wall clock (Date) in the model.
MaxClock == 1

\* Largest number of POST requests whose body is still being read.
MaxInflight == 2

\* ------------------------------------------------------- JavaScript values

Undefined == [t |-> "undefined"]

\* The JSON null.
Null == [t |-> "null"]

NaN == [t |-> "NaN"]

Num(n) == [t |-> "number", v |-> n]

Str(s) == [t |-> "string", v |-> s]

Arr(a) == [t |-> "array", v |-> a]

\* A function inherited from Object.prototype, named by its property key.
NativeFn(k) == [t |-> "function", v |-> k]

\* The object Object.prototype itself (the value of ({}).__proto__).
ObjectPrototype == [t |-> "object"]

\* a === b
StrictEq(a, b) ==
  /\ a.t = b.t
  /\ a.t # "NaN"
  /\ (a.t \in {"number", "string", "array", "function"} => a.v = b.v)

\* !!v
Truthy(v) ==
  CASE v.t = "undefined" -> FALSE
    [] v.t = "null" -> FALSE
    [] v.t = "NaN" -> FALSE
    [] v.t = "number" -> v.v # 0
    [] v.t = "string" -> v.v # <<>>
    [] OTHER -> TRUE

\* ------------------------------------------------------------- strings
\* A string is the sequence of its UTF-16 code units, as in JavaScript.

\* "undefined"
S_undefined == <<117, 110, 100, 101, 102, 105, 110, 101, 100>>
\* "NaN"
S_NaN == <<78, 97, 78>>

\* "null"
S_null == <<110, 117, 108, 108>>
\* "Unknown"
S_Unknown == <<85, 110, 107, 110, 111, 119, 110>>
\* "api"
S_api == <<97, 112, 105>>
\* "participants"
S_participants == <<112, 97, 114, 116, 105, 99, 105, 112, 97, 110, 116, 115>>
\* "statistics"
S_statistics == <<115, 116, 97, 116, 105, 115, 116, 105, 99, 115>>
\* "office"
S_office == <<111, 102, 102, 105, 99, 101>>
\* "profile"
S_profile == <<112, 114, 111, 102, 105, 108, 101>>
\* "search"
S_search == <<115, 101, 97, 114, 99, 104>>
\* "export"
S_export == <<101, 120, 112, 111, 114, 116>>
\* "csv"
S_csv == <<99, 115, 118>>
\* "health"
S_health == <<104, 101, 97, 108, 116, 104>>
\* "__proto__"
S_proto == <<95, 95, 112, 114, 111, 116, 111, 95, 95>>
\* "constructor"
S_constructor == <<99, 111, 110, 115, 116, 114, 117, 99, 116, 111, 114>>
\* "toString"
S_toString == <<116, 111, 83, 116, 114, 105, 110, 103>>
\* "valueOf"
S_valueOf == <<118, 97, 108, 117, 101, 79, 102>>
\* "hasOwnProperty"
S_hasOwnProperty == <<104, 97, 115, 79, 119, 110, 80, 114, 111, 112, 101, 114, 116, 121>>
\* "toLocaleString"
S_toLocaleString == <<116, 111, 76, 111, 99, 97, 108, 101, 83, 116, 114, 105, 110, 103>>
\* "isPrototypeOf"
S_isPrototypeOf == <<105, 115, 80, 114, 111, 116, 111, 116, 121, 112, 101, 79, 102>>
\* "propertyIsEnumerable"
S_propertyIsEnumerable ==
  <<112, 114, 111, 112, 101, 114, 116, 121, 73, 115, 69, 110, 117, 109, 101, 114, 97, 98,
    108, 101>>
\* "__defineGetter__"
S_defineGetter_ == <<95, 95, 100, 101, 102, 105, 110, 101, 71, 101, 116, 116, 101, 114, 95, 95>>
\* "__defineSetter__"
S_defineSetter_ == <<95, 95, 100, 101, 102, 105, 110, 101, 83, 101, 116, 116, 101, 114, 95, 95>>
\* "__lookupGetter__"
S_lookupGetter_ == <<95, 95, 108, 111, 111, 107, 117, 112, 71, 101, 116, 116, 101, 114, 95, 95>>
\* "__lookupSetter__"
S_lookupSetter_ == <<95, 95, 108, 111, 111, 107, 117, 112, 83, 101, 116, 116, 101, 114, 95, 95>>
\* "[object Object]"
S_objectObject == <<91, 111, 98, 106, 101, 99, 116, 32, 79, 98, 106, 101, 99, 116, 93>>

\* u is the first, respectively the second, code unit of a surrogate pair.
IsHighSurrogate(u) == 55296 <= u /\ u <= 56319

IsLowSurrogate(u) == 56320 <= u /\ u <= 57343

RECURSIVE CodePoints(_)
\* The code points of a string; a surrogate without its partner stands for itself.
CodePoints(s) ==
  IF Len(s) = 0 THEN <<>>
  ELSE IF Len(s) >= 2 /\ IsHighSurrogate(s[1]) /\ IsLowSurrogate(s[2])
  THEN <<65536 + (s[1] - 55296) * 1024 + (s[2] - 56320)>>
         \o CodePoints(SubSeq(s, 3, Len(s)))
  ELSE <<s[1]>> \o CodePoints(Tail(s))

RECURSIVE CodeUnits(_)
\* The string made of a sequence of code points.
CodeUnits(cps) ==
  IF Len(cps) = 0 THEN <<>>
  ELSE (IF Head(cps) >= 65536
        THEN <<55296 + ((Head(cps) - 65536) \div 1024),
               56320 + ((Head(cps) - 65536) % 1024)>>
        ELSE <<Head(cps)>>)
         \o CodeUnits(Tail(cps))

\* The code points toLowerCase maps to one other code point (Unicode 17.0):
\* <<first, last, step, offset>> maps first, first + step, ..., last to
\* themselves plus offset.
LowerCaseRanges ==
  << <<65, 90, 1, 32>>, <<192, 214, 1, 32>>, <<216, 222, 1, 32>>, <<256, 302, 2, 1>>,
     <<306, 310, 2, 1>>, <<313, 327, 2, 1>>, <<330, 374, 2, 1>>, <<376, 376, 1, -121>>,
     <<377, 381, 2, 1>>, <<385, 385, 1, 210>>, <<386, 388, 2, 1>>, <<390, 390, 1, 206>>,
     <<391, 391, 1, 1>>, <<393, 394, 1, 205>>, <<395, 395, 1, 1>>, <<398, 398, 1, 79>>,
     <<399, 399, 1, 202>>, <<400, 400, 1, 203>>, <<401, 401, 1, 1>>, <<403, 403, 1, 205>>,
     <<404, 404, 1, 207>>, <<406, 406, 1, 211>>, <<407, 407, 1, 209>>, <<408, 408, 1, 1>>,
     <<412, 412, 1, 211>>, <<413, 413, 1, 213>>, <<415, 415, 1, 214>>, <<416, 420, 2, 1>>,
     <<422, 422, 1, 218>>, <<423, 423, 1, 1>>, <<425, 425, 1, 218>>, <<428, 428, 1, 1>>,
     <<430, 430, 1, 218>>, <<431, 431, 1, 1>>, <<433, 434, 1, 217>>, <<435, 437, 2, 1>>,
     <<439, 439, 1, 219>>, <<440, 440, 1, 1>>, <<444, 444, 1, 1>>, <<452, 452, 1, 2>>,
     <<453, 453, 1, 1>>, <<455, 455, 1, 2>>, <<456, 456, 1, 1>>, <<458, 458, 1, 2>>,
     <<459, 475, 2, 1>>, <<478, 494, 2, 1>>, <<497, 497, 1, 2>>, <<498, 500, 2, 1>>,
     <<502, 502, 1, -97>>, <<503, 503, 1, -56>>, <<504, 542, 2, 1>>, <<544, 544, 1, -130>>,
     <<546, 562, 2, 1>>, <<570, 570, 1, 10795>>, <<571, 571, 1, 1>>, <<573, 573, 1, -163>>,
     <<574, 574, 1, 10792>>, <<577, 577, 1, 1>>, <<579, 579, 1, -195>>, <<580, 580, 1, 69>>,
     <<581, 581, 1, 71>>, <<582, 590, 2, 1>>, <<880, 882, 2, 1>>, <<886, 886, 1, 1>>,
     <<895, 895, 1, 116>>, <<902, 902, 1, 38>>, <<904, 906, 1, 37>>, <<908, 908, 1, 64>>,
     <<910, 911, 1, 63>>, <<913, 929, 1, 32>>, <<931, 939, 1, 32>>, <<975, 975, 1, 8>>,
     <<984, 1006, 2, 1>>, <<1012, 1012, 1, -60>>, <<1015, 1015, 1, 1>>, <<1017, 1017, 1, -7>>,
     <<1018, 1018, 1, 1>>, <<1021, 1023, 1, -130>>, <<1024, 1039, 1, 80>>, <<1040, 1071, 1, 32>>,
     <<1120, 1152, 2, 1>>, <<1162, 1214, 2, 1>>, <<1216, 1216, 1, 15>>, <<1217, 1229, 2, 1>>,
     <<1232, 1326, 2, 1>>, <<1329, 1366, 1, 48>>, <<4256, 4293, 1, 7264>>, <<4295, 4295, 1, 7264>>,
     <<4301, 4301, 1, 7264>>, <<5024, 5103, 1, 38864>>, <<5104, 5109, 1, 8>>, <<7305, 7305, 1, 1>>,
     <<7312, 7354, 1, -3008>>, <<7357, 7359, 1, -3008>>, <<7680, 7828, 2, 1>>, <<7838, 7838, 1, -7615>>,
     <<7840, 7934, 2, 1>>, <<7944, 7951, 1, -8>>, <<7960, 7965, 1, -8>>, <<7976, 7983, 1, -8>>,
     <<7992, 7999, 1, -8>>, <<8008, 8013, 1, -8>>, <<8025, 8031, 2, -8>>, <<8040, 8047, 1, -8>>,
     <<8072, 8079, 1, -8>>, <<8088, 8095, 1, -8>>, <<8104, 8111, 1, -8>>, <<8120, 8121, 1, -8>>,
     <<8122, 8123, 1, -74>>, <<8124, 8124, 1, -9>>, <<8136, 8139, 1, -86>>, <<8140, 8140, 1, -9>>,
     <<8152, 8153, 1, -8>>, <<8154, 8155, 1, -100>>, <<8168, 8169, 1, -8>>, <<8170, 8171, 1, -112>>,
     <<8172, 8172, 1, -7>>, <<8184, 8185, 1, -128>>, <<8186, 8187, 1, -126>>, <<8188, 8188, 1, -9>>,
     <<8486, 8486, 1, -7517>>, <<8490, 8490, 1, -8383>>, <<8491, 8491, 1, -8262>>, <<8498, 8498, 1, 28>>,
     <<8544, 8559, 1, 16>>, <<8579, 8579, 1, 1>>, <<9398, 9423, 1, 26>>, <<11264, 11311, 1, 48>>,
     <<11360, 11360, 1, 1>>, <<11362, 11362, 1, -10743>>, <<11363, 11363, 1, -3814>>, <<11364, 11364, 1, -10727>>,
     <<11367, 11371, 2, 1>>, <<11373, 11373, 1, -10780>>, <<11374, 11374, 1, -10749>>, <<11375, 11375, 1, -10783>>,
     <<11376, 11376, 1, -10782>>, <<11378, 11378, 1, 1>>, <<11381, 11381, 1, 1>>, <<11390, 11391, 1, -10815>>,
     <<11392, 11490, 2, 1>>, <<11499, 11501, 2, 1>>, <<11506, 11506, 1, 1>>, <<42560, 42604, 2, 1>>,
     <<42624, 42650, 2, 1>>, <<42786, 42798, 2, 1>>, <<42802, 42862, 2, 1>>, <<42873, 42875, 2, 1>>,
     <<42877, 42877, 1, -35332>>, <<42878, 42886, 2, 1>>, <<42891, 42891, 1, 1>>, <<42893, 42893, 1, -42280>>,
     <<42896, 42898, 2, 1>>, <<42902, 42920, 2, 1>>, <<42922, 42922, 1, -42308>>, <<42923, 42923, 1, -42319>>,
     <<42924, 42924, 1, -42315>>, <<42925, 42925, 1, -42305>>, <<42926, 42926, 1, -42308>>, <<42928, 42928, 1, -42258>>,
     <<42929, 42929, 1, -42282>>, <<42930, 42930, 1, -42261>>, <<42931, 42931, 1, 928>>, <<42932, 42946, 2, 1>>,
     <<42948, 42948, 1, -48>>, <<42949, 42949, 1, -42307>>, <<42950, 42950, 1, -35384>>, <<42951, 42953, 2, 1>>,
     <<42955, 42955, 1, -42343>>, <<42956, 42970, 2, 1>>, <<42972, 42972, 1, -42561>>, <<42997, 42997, 1, 1>>,
     <<65313, 65338, 1, 32>>, <<66560, 66599, 1, 40>>, <<66736, 66771, 1, 40>>, <<66928, 66938, 1, 39>>,
     <<66940, 66954, 1, 39>>, <<66956, 66962, 1, 39>>, <<66964, 66965, 1, 39>>, <<68736, 68786, 1, 64>>,
     <<68944, 68965, 1, 32>>, <<71840, 71871, 1, 32>>, <<93760, 93791, 1, 32>>, <<93856, 93880, 1, 27>>,
     <<125184, 125217, 1, 34>> >>

\* The case-ignorable code points, as ranges <<first, last>>.
CaseIgnorableRanges ==
  << <<39, 39>>, <<46, 46>>, <<58, 58>>, <<94, 94>>, <<96, 96>>, <<168, 168>>,
     <<173, 173>>, <<175, 175>>, <<180, 180>>, <<183, 184>>, <<688, 879>>, <<884, 885>>,
     <<890, 890>>, <<900, 901>>, <<903, 903>>, <<1155, 1161>>, <<1369, 1369>>, <<1375, 1375>>,
     <<1425, 1469>>, <<1471, 1471>>, <<1473, 1474>>, <<1476, 1477>>, <<1479, 1479>>, <<1524, 1524>>,
     <<1536, 1541>>, <<1552, 1562>>, <<1564, 1564>>, <<1600, 1600>>, <<1611, 1631>>, <<1648, 1648>>,
     <<1750, 1757>>, <<1759, 1768>>, <<1770, 1773>>, <<1807, 1807>>, <<1809, 1809>>, <<1840, 1866>>,
     <<1958, 1968>>, <<2027, 2037>>, <<2042, 2042>>, <<2045, 2045>>, <<2070, 2093>>, <<2137, 2139>>,
     <<2184, 2184>>, <<2192, 2193>>, <<2199, 2207>>, <<2249, 2306>>, <<2362, 2362>>, <<2364, 2364>>,
     <<2369, 2376>>, <<2381, 2381>>, <<2385, 2391>>, <<2402, 2403>>, <<2417, 2417>>, <<2433, 2433>>,
     <<2492, 2492>>, <<2497, 2500>>, <<2509, 2509>>, <<2530, 2531>>, <<2558, 2558>>, <<2561, 2562>>,
     <<2620, 2620>>, <<2625, 2626>>, <<2631, 2632>>, <<2635, 2637>>, <<2641, 2641>>, <<2672, 2673>>,
     <<2677, 2677>>, <<2689, 2690>>, <<2748, 2748>>, <<2753, 2757>>, <<2759, 2760>>, <<2765, 2765>>,
     <<2786, 2787>>, <<2810, 2815>>, <<2817, 2817>>, <<2876, 2876>>, <<2879, 2879>>, <<2881, 2884>>,
     <<2893, 2893>>, <<2901, 2902>>, <<2914, 2915>>, <<2946, 2946>>, <<3008, 3008>>, <<3021, 3021>>,
     <<3072, 3072>>, <<3076, 3076>>, <<3132, 3132>>, <<3134, 3136>>, <<3142, 3144>>, <<3146, 3149>>,
     <<3157, 3158>>, <<3170, 3171>>, <<3201, 3201>>, <<3260, 3260>>, <<3263, 3263>>, <<3270, 3270>>,
     <<3276, 3277>>, <<3298, 3299>>, <<3328, 3329>>, <<3387, 3388>>, <<3393, 3396>>, <<3405, 3405>>,
     <<3426, 3427>>, <<3457, 3457>>, <<3530, 3530>>, <<3538, 3540>>, <<3542, 3542>>, <<3633, 3633>>,
     <<3636, 3642>>, <<3654, 3662>>, <<3761, 3761>>, <<3764, 3772>>, <<3782, 3782>>, <<3784, 3790>>,
     <<3864, 3865>>, <<3893, 3893>>, <<3895, 3895>>, <<3897, 3897>>, <<3953, 3966>>, <<3968, 3972>>,
     <<3974, 3975>>, <<3981, 3991>>, <<3993, 4028>>, <<4038, 4038>>, <<4141, 4144>>, <<4146, 4151>>,
     <<4153, 4154>>, <<4157, 4158>>, <<4184, 4185>>, <<4190, 4192>>, <<4209, 4212>>, <<4226, 4226>>,
     <<4229, 4230>>, <<4237, 4237>>, <<4253, 4253>>, <<4348, 4348>>, <<4957, 4959>>, <<5906, 5908>>,
     <<5938, 5939>>, <<5970, 5971>>, <<6002, 6003>>, <<6068, 6069>>, <<6071, 6077>>, <<6086, 6086>>,
     <<6089, 6099>>, <<6103, 6103>>, <<6109, 6109>>, <<6155, 6159>>, <<6211, 6211>>, <<6277, 6278>>,
     <<6313, 6313>>, <<6432, 6434>>, <<6439, 6440>>, <<6450, 6450>>, <<6457, 6459>>, <<6679, 6680>>,
     <<6683, 6683>>, <<6742, 6742>>, <<6744, 6750>>, <<6752, 6752>>, <<6754, 6754>>, <<6757, 6764>>,
     <<6771, 6780>>, <<6783, 6783>>, <<6823, 6823>>, <<6832, 6877>>, <<6880, 6891>>, <<6912, 6915>>,
     <<6964, 6964>>, <<6966, 6970>>, <<6972, 6972>>, <<6978, 6978>>, <<7019, 7027>>, <<7040, 7041>>,
     <<7074, 7077>>, <<7080, 7081>>, <<7083, 7085>>, <<7142, 7142>>, <<7144, 7145>>, <<7149, 7149>>,
     <<7151, 7153>>, <<7212, 7219>>, <<7222, 7223>>, <<7288, 7293>>, <<7376, 7378>>, <<7380, 7392>>,
     <<7394, 7400>>, <<7405, 7405>>, <<7412, 7412>>, <<7416, 7417>>, <<7468, 7530>>, <<7544, 7544>>,
     <<7579, 7679>>, <<8125, 8125>>, <<8127, 8129>>, <<8141, 8143>>, <<8157, 8159>>, <<8173, 8175>>,
     <<8189, 8190>>, <<8203, 8207>>, <<8216, 8217>>, <<8228, 8228>>, <<8231, 8231>>, <<8234, 8238>>,
     <<8288, 8292>>, <<8294, 8303>>, <<8305, 8305>>, <<8319, 8319>>, <<8336, 8348>>, <<8400, 8432>>,
     <<11388, 11389>>, <<11503, 11505>>, <<11631, 11631>>, <<11647, 11647>>, <<11744, 11775>>, <<11823, 11823>>,
     <<12293, 12293>>, <<12330, 12333>>, <<12337, 12341>>, <<12347, 12347>>, <<12441, 12446>>, <<12540, 12542>>,
     <<40981, 40981>>, <<42232, 42237>>, <<42508, 42508>>, <<42607, 42610>>, <<42612, 42621>>, <<42623, 42623>>,
     <<42652, 42655>>, <<42736, 42737>>, <<42752, 42785>>, <<42864, 42864>>, <<42888, 42890>>, <<42993, 42996>>,
     <<43000, 43001>>, <<43010, 43010>>, <<43014, 43014>>, <<43019, 43019>>, <<43045, 43046>>, <<43052, 43052>>,
     <<43204, 43205>>, <<43232, 43249>>, <<43263, 43263>>, <<43302, 43309>>, <<43335, 43345>>, <<43392, 43394>>,
     <<43443, 43443>>, <<43446, 43449>>, <<43452, 43453>>, <<43471, 43471>>, <<43493, 43494>>, <<43561, 43566>>,
     <<43569, 43570>>, <<43573, 43574>>, <<43587, 43587>>, <<43596, 43596>>, <<43632, 43632>>, <<43644, 43644>>,
     <<43696, 43696>>, <<43698, 43700>>, <<43703, 43704>>, <<43710, 43711>>, <<43713, 43713>>, <<43741, 43741>>,
     <<43756, 43757>>, <<43763, 43764>>, <<43766, 43766>>, <<43867, 43871>>, <<43881, 43883>>, <<44005, 44005>>,
     <<44008, 44008>>, <<44013, 44013>>, <<64286, 64286>>, <<64434, 64450>>, <<65024, 65039>>, <<65043, 65043>>,
     <<65056, 65071>>, <<65106, 65106>>, <<65109, 65109>>, <<65279, 65279>>, <<65287, 65287>>, <<65294, 65294>>,
     <<65306, 65306>>, <<65342, 65342>>, <<65344, 65344>>, <<65392, 65392>>, <<65438, 65439>>, <<65507, 65507>>,
     <<65529, 65531>>, <<66045, 66045>>, <<66272, 66272>>, <<66422, 66426>>, <<67456, 67461>>, <<67463, 67504>>,
     <<67506, 67514>>, <<68097, 68099>>, <<68101, 68102>>, <<68108, 68111>>, <<68152, 68154>>, <<68159, 68159>>,
     <<68325, 68326>>, <<68900, 68903>>, <<68942, 68942>>, <<68969, 68973>>, <<68975, 68975>>, <<69291, 69292>>,
     <<69317, 69317>>, <<69370, 69375>>, <<69446, 69456>>, <<69506, 69509>>, <<69633, 69633>>, <<69688, 69702>>,
     <<69744, 69744>>, <<69747, 69748>>, <<69759, 69761>>, <<69811, 69814>>, <<69817, 69818>>, <<69821, 69821>>,
     <<69826, 69826>>, <<69837, 69837>>, <<69888, 69890>>, <<69927, 69931>>, <<69933, 69940>>, <<70003, 70003>>,
     <<70016, 70017>>, <<70070, 70078>>, <<70089, 70092>>, <<70095, 70095>>, <<70191, 70193>>, <<70196, 70196>>,
     <<70198, 70199>>, <<70206, 70206>>, <<70209, 70209>>, <<70367, 70367>>, <<70371, 70378>>, <<70400, 70401>>,
     <<70459, 70460>>, <<70464, 70464>>, <<70502, 70508>>, <<70512, 70516>>, <<70587, 70592>>, <<70606, 70606>>,
     <<70608, 70608>>, <<70610, 70610>>, <<70625, 70626>>, <<70712, 70719>>, <<70722, 70724>>, <<70726, 70726>>,
     <<70750, 70750>>, <<70835, 70840>>, <<70842, 70842>>, <<70847, 70848>>, <<70850, 70851>>, <<71090, 71093>>,
     <<71100, 71101>>, <<71103, 71104>>, <<71132, 71133>>, <<71219, 71226>>, <<71229, 71229>>, <<71231, 71232>>,
     <<71339, 71339>>, <<71341, 71341>>, <<71344, 71349>>, <<71351, 71351>>, <<71453, 71453>>, <<71455, 71455>>,
     <<71458, 71461>>, <<71463, 71467>>, <<71727, 71735>>, <<71737, 71738>>, <<71995, 71996>>, <<71998, 71998>>,
     <<72003, 72003>>, <<72148, 72151>>, <<72154, 72155>>, <<72160, 72160>>, <<72193, 72202>>, <<72243, 72248>>,
     <<72251, 72254>>, <<72263, 72263>>, <<72273, 72278>>, <<72281, 72283>>, <<72330, 72342>>, <<72344, 72345>>,
     <<72544, 72544>>, <<72546, 72548>>, <<72550, 72550>>, <<72752, 72758>>, <<72760, 72765>>, <<72767, 72767>>,
     <<72850, 72871>>, <<72874, 72880>>, <<72882, 72883>>, <<72885, 72886>>, <<73009, 73014>>, <<73018, 73018>>,
     <<73020, 73021>>, <<73023, 73029>>, <<73031, 73031>>, <<73104, 73105>>, <<73109, 73109>>, <<73111, 73111>>,
     <<73177, 73177>>, <<73459, 73460>>, <<73472, 73473>>, <<73526, 73530>>, <<73536, 73536>>, <<73538, 73538>>,
     <<73562, 73562>>, <<78896, 78912>>, <<78919, 78933>>, <<90398, 90409>>, <<90413, 90415>>, <<92912, 92916>>,
     <<92976, 92982>>, <<92992, 92995>>, <<93504, 93506>>, <<93547, 93548>>, <<94031, 94031>>, <<94095, 94111>>,
     <<94176, 94177>>, <<94179, 94180>>, <<94194, 94195>>, <<110576, 110579>>, <<110581, 110587>>, <<110589, 110590>>,
     <<113821, 113822>>, <<113824, 113827>>, <<118528, 118573>>, <<118576, 118598>>, <<119143, 119145>>, <<119155, 119170>>,
     <<119173, 119179>>, <<119210, 119213>>, <<119362, 119364>>, <<121344, 121398>>, <<121403, 121452>>, <<121461, 121461>>,
     <<121476, 121476>>, <<121499, 121503>>, <<121505, 121519>>, <<122880, 122886>>, <<122888, 122904>>, <<122907, 122913>>,
     <<122915, 122916>>, <<122918, 122922>>, <<122928, 122989>>, <<123023, 123023>>, <<123184, 123197>>, <<123566, 123566>>,
     <<123628, 123631>>, <<124139, 124143>>, <<124398, 124399>>, <<124643, 124643>>, <<124646, 124646>>, <<124654, 124655>>,
     <<124661, 124661>>, <<124671, 124671>>, <<125136, 125142>>, <<125252, 125259>>, <<127995, 127999>>, <<917505, 917505>>,
     <<917536, 917631>>, <<917760, 917999>> >>

\* The cased code points that are not case-ignorable, as ranges <<first, last>>.
CasedRanges ==
  << <<65, 90>>, <<97, 122>>, <<170, 170>>, <<181, 181>>, <<186, 186>>, <<192, 214>>,
     <<216, 246>>, <<248, 442>>, <<444, 447>>, <<452, 659>>, <<662, 687>>, <<880, 883>>,
     <<886, 887>>, <<891, 893>>, <<895, 895>>, <<902, 902>>, <<904, 906>>, <<908, 908>>,
     <<910, 929>>, <<931, 1013>>, <<1015, 1153>>, <<1162, 1327>>, <<1329, 1366>>, <<1376, 1416>>,
     <<4256, 4293>>, <<4295, 4295>>, <<4301, 4301>>, <<4304, 4346>>, <<4349, 4351>>, <<5024, 5109>>,
     <<5112, 5117>>, <<7296, 7306>>, <<7312, 7354>>, <<7357, 7359>>, <<7424, 7467>>, <<7531, 7543>>,
     <<7545, 7578>>, <<7680, 7957>>, <<7960, 7965>>, <<7968, 8005>>, <<8008, 8013>>, <<8016, 8023>>,
     <<8025, 8025>>, <<8027, 8027>>, <<8029, 8029>>, <<8031, 8061>>, <<8064, 8116>>, <<8118, 8124>>,
     <<8126, 8126>>, <<8130, 8132>>, <<8134, 8140>>, <<8144, 8147>>, <<8150, 8155>>, <<8160, 8172>>,
     <<8178, 8180>>, <<8182, 8188>>, <<8450, 8450>>, <<8455, 8455>>, <<8458, 8467>>, <<8469, 8469>>,
     <<8473, 8477>>, <<8484, 8484>>, <<8486, 8486>>, <<8488, 8488>>, <<8490, 8493>>, <<8495, 8500>>,
     <<8505, 8505>>, <<8508, 8511>>, <<8517, 8521>>, <<8526, 8526>>, <<8544, 8575>>, <<8579, 8580>>,
     <<9398, 9449>>, <<11264, 11387>>, <<11390, 11492>>, <<11499, 11502>>, <<11506, 11507>>, <<11520, 11557>>,
     <<11559, 11559>>, <<11565, 11565>>, <<42560, 42605>>, <<42624, 42651>>, <<42786, 42863>>, <<42865, 42887>>,
     <<42891, 42894>>, <<42896, 42972>>, <<42997, 42998>>, <<43002, 43002>>, <<43824, 43866>>, <<43872, 43880>>,
     <<43888, 43967>>, <<64256, 64262>>, <<64275, 64279>>, <<65313, 65338>>, <<65345, 65370>>, <<66560, 66639>>,
     <<66736, 66771>>, <<66776, 66811>>, <<66928, 66938>>, <<66940, 66954>>, <<66956, 66962>>, <<66964, 66965>>,
     <<66967, 66977>>, <<66979, 66993>>, <<66995, 67001>>, <<67003, 67004>>, <<68736, 68786>>, <<68800, 68850>>,
     <<68944, 68965>>, <<68976, 68997>>, <<71840, 71903>>, <<93760, 93823>>, <<93856, 93880>>, <<93883, 93907>>,
     <<119808, 119892>>, <<119894, 119964>>, <<119966, 119967>>, <<119970, 119970>>, <<119973, 119974>>, <<119977, 119980>>,
     <<119982, 119993>>, <<119995, 119995>>, <<119997, 120003>>, <<120005, 120069>>, <<120071, 120074>>, <<120077, 120084>>,
     <<120086, 120092>>, <<120094, 120121>>, <<120123, 120126>>, <<120128, 120132>>, <<120134, 120134>>, <<120138, 120144>>,
     <<120146, 120485>>, <<120488, 120512>>, <<120514, 120538>>, <<120540, 120570>>, <<120572, 120596>>, <<120598, 120628>>,
     <<120630, 120654>>, <<120656, 120686>>, <<120688, 120712>>, <<120714, 120744>>, <<120746, 120770>>, <<120772, 120779>>,
     <<122624, 122633>>, <<122635, 122654>>, <<122661, 122666>>, <<125184, 125251>>, <<127280, 127305>>, <<127312, 127337>>,
     <<127344, 127369>> >>

\* Code point c lies in one of the ranges <<first, last>> of table.
InRanges(table, c) ==
  \E i \in 1..Len(table) : table[i][1] <= c /\ c <= table[i][2]

\* Row i of LowerCaseRanges maps code point c.
LowerCaseRow(i, c) ==
  /\ LowerCaseRanges[i][1] <= c
  /\ c <= LowerCaseRanges[i][2]
  /\ (c - LowerCaseRanges[i][1]) % LowerCaseRanges[i][3] = 0

\* The lower-case mapping of one code point that maps to one code point.
SimpleLowerCase(c) ==
  IF \E i \in 1..Len(LowerCaseRanges) : LowerCaseRow(i, c)
  THEN c + LowerCaseRanges[CHOOSE i \in 1..Len(LowerCaseRanges) : LowerCaseRow(i, c)][4]
  ELSE c

\* The capital sigma at position i ends a word: a cased letter precedes it,
\* with only case-ignorable characters between, and none follows it that way.
FinalSigma(cps, i) ==
  /\ \E j \in 1..(i - 1) :
       /\ InRanges(CasedRanges, cps[j])
       /\ \A k \in (j + 1)..(i - 1) : InRanges(CaseIgnorableRanges, cps[k])
  /\ ~\E j \in (i + 1)..Len(cps) :
       /\ InRanges(CasedRanges, cps[j])
       /\ \A k \in (i + 1)..(j - 1) : InRanges(CaseIgnorableRanges, cps[k])

\* The lower-case form of the code point at position i of cps.
LowerCaseAt(cps, i) ==
  CASE cps[i] = 304 -> <<105, 775>>
    [] cps[i] = 931 -> <<IF FinalSigma(cps, i) THEN 962 ELSE 963>>
    [] OTHER -> <<SimpleLowerCase(cps[i])>>

RECURSIVE LowerCaseFrom(_, _)
LowerCaseFrom(cps, i) ==
  IF i > Len(cps) THEN <<>>
  ELSE LowerCaseAt(cps, i) \o LowerCaseFrom(cps, i + 1)

\* String.prototype.toLowerCase.  In a string of ASCII characters only the
\* letters A to Z (65..90) change.
ToLowerCase(s) ==
  IF \A i \in 1..Len(s) : s[i] < 128
  THEN [i \in 1..Len(s) |-> IF 65 <= s[i] /\ s[i] <= 90 THEN s[i] + 32 ELSE s[i]]
  ELSE CodeUnits(LowerCaseFrom(CodePoints(s), 1))

\* String.prototype.includes: sub occurs in s as a contiguous substring.
Includes(s, sub) ==
  \E i \in 0..(Len(s) - Len(sub)) :
    \A j \in 1..Len(sub) : s[i + j] = sub[j]

\* Index of the first occurrence of code unit c in s, 0 when there is none.
IndexOf(s, c) ==
  IF \E i \in 1..Len(s) : s[i] = c
  THEN CHOOSE i \in 1..Len(s) : s[i] = c /\ \A j \in 1..(i - 1) : s[j] # c
  ELSE 0

RECURSIVE Split(_, _)
\* String.prototype.split with a one-character separator.
Split(s, c) ==
  LET i == IndexOf(s, c) IN
  IF i = 0 THEN <<s>>
  ELSE <<SubSeq(s, 1, i - 1)>> \o Split(SubSeq(s, i + 1, Len(s)), c)

RECURSIVE Join(_, _)
\* Array.prototype.join over an array of strings.
Join(a, sep) ==
  IF Len(a) = 0 THEN <<>>
  ELSE IF Len(a) = 1 THEN a[1]
  ELSE a[1] \o sep \o Join(Tail(a), sep)

\* Value of code unit c as a digit (0-9, a-z, A-Z) in the given radix, -1
\* when it is none.
DigitValue(c, radix) ==
  LET d == IF 48 <= c /\ c <= 57 THEN c - 48
           ELSE IF 97 <= c /\ c <= 122 THEN c - 87
           ELSE IF 65 <= c /\ c <= 90 THEN c - 55
           ELSE 36
  IN IF d < radix THEN d ELSE -1

RECURSIVE Digits(_)
\* Decimal digits of a natural number.
Digits(n) ==
  IF n < 10 THEN <<48 + n>>
  ELSE Digits(n \div 10) \o <<48 + (n % 10)>>

\* The two decimal digits of a number below 100, with a leading zero.
TwoDigits(n) == <<48 + (n \div 10), 48 + (n % 10)>>

\* The white space and line terminators that parseInt skips: tab, line feed,
\* vertical tab, form feed, carriage return, space, no-break space, U+1680,
\* U+2000 to U+200A, U+2028, U+2029, U+202F, U+205F, U+3000 and U+FEFF.
WhiteSpaceChars ==
  {9, 10, 11, 12, 13, 32, 160, 5760, 8232, 8233, 8239, 8287, 12288, 65279}
    \cup (8192..8202)

RECURSIVE TrimStart(_)
\* s without its leading white space, which parseInt skips.
TrimStart(s) ==
  IF Len(s) > 0 /\ s[1] \in WhiteSpaceChars THEN TrimStart(Tail(s)) ELSE s

RECURSIVE DigitPrefixValue(_, _, _)
\* Value of the longest prefix of s made of digits of the radix, acc so far.
DigitPrefixValue(s, radix, acc) ==
  IF Len(s) = 0 \/ DigitValue(s[1], radix) < 0 THEN acc
  ELSE DigitPrefixValue(Tail(s), radix, acc * radix + DigitValue(s[1], radix))

\* parseInt(s) with no radix argument: white space, a sign, 0x or 0X for
\* radix 16, then the longest run of digits.  Numbers are integers here, so
\* the value is the one JavaScript gives as long as it is below 2^31.
ParseInt(s) ==
  LET t == TrimStart(s)
      neg == Len(t) > 0 /\ t[1] = 45
      u == IF Len(t) > 0 /\ t[1] \in {45, 43} THEN Tail(t) ELSE t
      hex == Len(u) >= 2 /\ u[1] = 48 /\ u[2] \in {120, 88}
      radix == IF hex THEN 16 ELSE 10
      w == IF hex THEN SubSeq(u, 3, Len(u)) ELSE u
  IN IF Len(w) = 0 \/ DigitValue(w[1], radix) < 0 THEN NaN
     ELSE LET n == DigitPrefixValue(w, radix, 0)
          IN Num(IF neg THEN 0 - n ELSE n)

\* Source text of a native function, as Function.prototype.toString gives it:
\* "function " name "() { [native code] }".
NativeFnSource(k) ==
  <<102, 117, 110, 99, 116, 105, 111, 110, 32>>
    \o (IF k = S_constructor THEN <<79, 98, 106, 101, 99, 116>> ELSE k)
    \o <<40, 41, 32, 123, 32, 91, 110, 97, 116, 105, 118, 101, 32, 99, 111, 100, 101, 93,
         32, 125>>

\* String(v): what a template literal, a property key or + with a string makes of v.
JsToString(v) ==
  CASE v.t = "undefined" -> S_undefined
    [] v.t = "null" -> S_null
    [] v.t = "NaN" -> S_NaN
    [] v.t = "number" -> IF v.v < 0 THEN <<45>> \o Digits(0 - v.v) ELSE Digits(v.v)
    [] v.t = "string" -> v.v
    [] v.t = "array" -> Join(v.v, <<44>>)
    [] v.t = "function" -> NativeFnSource(v.v)
    [] OTHER -> S_objectObject

\* "ID,Name,Congressional Office,Profile,Primary Concern,Adjectives,Priorities,
\* Selected Traits,Timestamp\n"
CsvHeader ==
  <<73, 68, 44, 78, 97, 109, 101, 44,
    67, 111, 110, 103, 114, 101, 115, 115, 105, 111, 110, 97, 108, 32,
    79, 102, 102, 105, 99, 101, 44, 80, 114, 111, 102, 105, 108, 101, 44,
    80, 114, 105, 109, 97, 114, 121, 32, 67, 111, 110, 99, 101, 114, 110, 44,
    65, 100, 106, 101, 99, 116, 105, 118, 101, 115, 44,
    80, 114, 105, 111, 114, 105, 116, 105, 101, 115, 44,
    83, 101, 108, 101, 99, 116, 101, 100, 32, 84, 114, 97, 105, 116, 115, 44,
    84, 105, 109, 101, 115, 116, 97, 109, 112, 10>>

\* "participants-"
S_filenamePrefix == <<112, 97, 114, 116, 105, 99, 105, 112, 97, 110, 116, 115, 45>>
\* ".csv"
S_filenameSuffix == <<46, 99, 115, 118>>

\* Date.prototype.toISOString of the time n milliseconds after the epoch:
\* "1970-01-DDTHH:MM:SS.mmmZ" (every n below 2^31 falls in January 1970).
ToISOString(n) ==
  <<49, 57, 55, 48, 45, 48, 49, 45>> \o TwoDigits((n \div 86400000) + 1)
    \o <<84>> \o TwoDigits((n \div 3600000) % 24)
    \o <<58>> \o TwoDigits((n \div 60000) % 60)
    \o <<58>> \o TwoDigits((n \div 1000) % 60)
    \o <<46, 48 + ((n % 1000) \div 100)>> \o TwoDigits(n % 100) \o <<90>>

\* The octet written %XX at position i of s, -1 when no such escape is there.
OctetAt(s, i) ==
  IF /\ i + 2 <= Len(s)
     /\ s[i] = 37
     /\ DigitValue(s[i + 1], 16) >= 0
     /\ DigitValue(s[i + 2], 16) >= 0
  THEN 16 * DigitValue(s[i + 1], 16) + DigitValue(s[i + 2], 16)
  ELSE -1

\* Number of octets of the UTF-8 sequence that octet b starts, 0 when b
\* starts none.
Utf8Length(b) ==
  IF 0 <= b /\ b <= 127 THEN 1
  ELSE IF 194 <= b /\ b <= 223 THEN 2
  ELSE IF 224 <= b /\ b <= 239 THEN 3
  ELSE IF 240 <= b /\ b <= 244 THEN 4
  ELSE 0

\* Octet c may follow as the k-th octet (k >= 2) of a sequence that starts
\* with octet b: no overlong form, no surrogate, nothing above U+10FFFF.
Utf8Continues(b, k, c) ==
  /\ 128 <= c
  /\ c <= 191
  /\ (k = 2 /\ b = 224) => c >= 160
  /\ (k = 2 /\ b = 237) => c <= 159
  /\ (k = 2 /\ b = 240) => c >= 144
  /\ (k = 2 /\ b = 244) => c <= 143

\* The code point of the n escaped octets at position i of s.
Utf8CodePoint(s, i, n) ==
  CASE n = 1 -> OctetAt(s, i)
    [] n = 2 -> (OctetAt(s, i) - 192) * 64 + (OctetAt(s, i + 3) - 128)
    [] n = 3 -> (OctetAt(s, i) - 224) * 4096 + (OctetAt(s, i + 3) - 128) * 64
                  + (OctetAt(s, i + 6) - 128)
    [] n = 4 -> (OctetAt(s, i) - 240) * 262144 + (OctetAt(s, i + 3) - 128) * 4096
                  + (OctetAt(s, i + 6) - 128) * 64 + (OctetAt(s, i + 9) - 128)

\* u in front of a decoded rest, a failed rest staying failed.
DecodedAfter(u, rest) ==
  IF rest.ok THEN [ok |-> TRUE, v |-> u \o rest.v] ELSE rest

RECURSIVE DecodeFrom(_, _)
\* decodeURIComponent of s from position i on.
DecodeFrom(s, i) ==
  IF i > Len(s) THEN [ok |-> TRUE, v |-> <<>>]
  ELSE IF s[i] # 37 THEN DecodedAfter(<<s[i]>>, DecodeFrom(s, i + 1))
  ELSE IF \/ Utf8Length(OctetAt(s, i)) = 0
          \/ \E k \in 2..Utf8Length(OctetAt(s, i)) :
               ~Utf8Continues(OctetAt(s, i), k, OctetAt(s, i + 3 * (k - 1)))
  THEN [ok |-> FALSE, v |-> <<>>]
  ELSE DecodedAfter(CodeUnits(<<Utf8CodePoint(s, i, Utf8Length(OctetAt(s, i)))>>),
                    DecodeFrom(s, i + 3 * Utf8Length(OctetAt(s, i))))

\* decodeURIComponent(s): ok is FALSE when it throws a URIError.  A string
\* without '%' (37) is its own decoding.
DecodeURIComponent(s) ==
  IF \A i \in 1..Len(s) : s[i] # 37 THEN [ok |-> TRUE, v |-> s]
  ELSE DecodeFrom(s, 1)

\* ------------------------------------------------------------- state

VARIABLES
  participants,          \* the in-memory list of participant records
  participantIdCounter,  \* the next id the store hands out
  now,                   \* the wall clock read by new Date() and Date.now()
  inflight,              \* POST requests whose body is still being read
  request,               \* the request answered last
  response,              \* the response sent last
  handler,               \* the handler that ran for it, "" when none did
  assigned               \* history: the ids Inserts have returned so far

vars ==
  <<participants, participantIdCounter, now, inflight, request, response, handler,
    assigned>>

\* ------------------------------------------------------------- objects

EmptyObject == [k \in {} |-> Undefined]

\* p[k], undefined when p has no own property k.
Get(p, k) == IF k \in DOMAIN p THEN p[k] ELSE Undefined

\* { ...a, ...b }: the properties of a, then those of b over them.
Spread(a, b) ==
  [k \in (DOMAIN a) \cup (DOMAIN b) |-> IF k \in DOMAIN b THEN b[k] ELSE a[k]]

\* Names of the functions every plain object inherits from Object.prototype.
ObjectPrototypeFns ==
  {S_constructor, S_toString, S_toLocaleString, S_valueOf, S_hasOwnProperty,
   S_isPrototypeOf, S_propertyIsEnumerable, S_defineGetter_, S_defineSetter_,
   S_lookupGetter_, S_lookupSetter_}

\* obj[key] on a plain object: own property, else what Object.prototype has.
GetProp(obj, key) ==
  IF key \in DOMAIN obj THEN obj[key]
  ELSE IF key = S_proto THEN ObjectPrototype
  ELSE IF key \in ObjectPrototypeFns THEN NativeFn(key)
  ELSE Undefined

\* obj[key] = val on a plain object; the __proto__ setter ignores a primitive.
SetProp(obj, key, val) ==
  IF key = S_proto THEN obj
  ELSE [k \in (DOMAIN obj) \cup {key} |-> IF k = key THEN val ELSE obj[k]]

\* (cur || 0) + 1
OrZeroPlusOne(cur) ==
  LET base == IF Truthy(cur) THEN cur ELSE Num(0)
  IN IF base.t = "number" THEN Num(base.v + 1)
     ELSE Str(JsToString(base) \o <<49>>)

\* ------------------------------------------------------------- handlers
\* A handler yields the response it sends and the store it leaves, or throws.

Reply(status, body) ==
  [threw |-> FALSE,
   response |-> [status |-> status, type |-> "json", body |-> body],
   participants |-> participants,
   participantIdCounter |-> participantIdCounter]

Throw ==
  [threw |-> TRUE,
   participants |-> participants,
   participantIdCounter |-> participantIdCounter]

\* app.get('/api/participants')
ListAll(req, t) == Reply(200, participants)

\* app.get('/api/participants/:id')
GetById(req, t) ==
  LET wanted == ParseInt(req.params)
      hits == SelectSeq(participants, LAMBDA p : StrictEq(Get(p, "id"), wanted))
  IN IF Len(hits) > 0 THEN Reply(200, hits[1])
     ELSE Reply(404, [error |-> "Participant not found"])

\* The object literal of the create handler.
NewParticipant(body, t) ==
  Spread(Spread([id |-> Num(participantIdCounter)], body),
         [timestamp |-> Str(ToISOString(t))])

\* Insert with the counter read but not incremented.
InsertNoIncrement(req, t) ==
  [threw |-> FALSE,
   response |-> [status |-> 201, type |-> "json", body |-> NewParticipant(req.body, t)],
   participants |-> Append(participants, NewParticipant(req.body, t)),
   participantIdCounter |-> participantIdCounter]

\* app.post('/api/participants')
Insert(req, t) ==
  LET newParticipant == NewParticipant(req.body, t)
  IN [threw |-> FALSE,
      response |-> [status |-> 201, type |-> "json", body |-> newParticipant],
      participants |-> Append(participants, newParticipant),
      participantIdCounter |-> participantIdCounter + 1]

\* p.congressionalOffice?.split('|') fails: the value is neither undefined nor
\* null, for which ?. ends the chain, and it has no split method.
HasNoSplit(p) ==
  Get(p, "congressionalOffice").t \notin {"undefined", "null", "string"}

\* p.congressionalOffice?.split('|')[0]; 124 is '|'.
OfficeKey(p) ==
  LET o == Get(p, "congressionalOffice")
  IN IF o.t \in {"undefined", "null"} THEN Undefined ELSE Str(Split(o.v, 124)[1])

RECURSIVE Distribution(_, _, _)
\* The forEach of the statistics handler, for one field, from object obj on.
Distribution(ps, field, obj) ==
  IF Len(ps) = 0 THEN obj
  ELSE LET key == JsToString(Get(Head(ps), field))
       IN Distribution(Tail(ps), field,
                       SetProp(obj, key, OrZeroPlusOne(GetProp(obj, key))))

\* p.selectedTraits?.length || 0
TraitsLength(p) ==
  LET v == Get(p, "selectedTraits")
  IN IF v.t \in {"array", "string"} THEN Len(v.v) ELSE 0

RECURSIVE TotalTraits(_)
\* participants.reduce((sum, p) => sum + ..., 0)
TotalTraits(ps) ==
  IF Len(ps) = 0 THEN 0 ELSE TraitsLength(Head(ps)) + TotalTraits(Tail(ps))

\* Math.round(total / n) for total >= 0 and n > 0: halves round up.
MathRound(total, n) == (2 * total + n) \div (2 * n)

\* app.get('/api/statistics')
Statistics(req, t) ==
  IF \E i \in 1..Len(participants) : HasNoSplit(participants[i]) THEN Throw
  ELSE Reply(200,
    [totalParticipants |-> Len(participants),
     uniqueOffices |->
       Cardinality({OfficeKey(participants[i]) : i \in 1..Len(participants)}),
     profileDistribution |-> Distribution(participants, "audienceProfile", EmptyObject),
     concernDistribution |-> Distribution(participants, "primaryConcern", EmptyObject),
     avgTraitsSelected |->
       IF Len(participants) > 0
       THEN MathRound(TotalTraits(participants), Len(participants))
       ELSE 0,
     completionRate |-> 100,
     lastUpdated |-> ToISOString(t)])

\* p.congressionalOffice?.includes(office), an undefined or null office being
\* falsy.
OfficeIncludes(p, office) ==
  LET o == Get(p, "congressionalOffice")
  IN CASE o.t = "string" -> Includes(o.v, office)
       [] o.t = "array" -> \E i \in 1..Len(o.v) : o.v[i] = office
       [] OTHER -> FALSE

\* app.get('/api/participants/office/:office')
FilterByOffice(req, t) ==
  IF \E i \in 1..Len(participants) :
       Get(participants[i], "congressionalOffice").t
         \notin {"undefined", "null", "string", "array"}
  THEN Throw
  ELSE Reply(200, SelectSeq(participants, LAMBDA p : OfficeIncludes(p, req.params)))

\* The profile filter with its result assigned to the collection itself.
FilterByProfileAssigns(req, t) ==
  [threw |-> FALSE,
   response |->
     [status |-> 200, type |-> "json",
      body |-> SelectSeq(participants,
                 LAMBDA p : StrictEq(Get(p, "audienceProfile"), Str(req.params)))],
   participants |->
     SelectSeq(participants,
               LAMBDA p : StrictEq(Get(p, "audienceProfile"), Str(req.params))),
   participantIdCounter |-> participantIdCounter]

\* app.get('/api/participants/profile/:profile')
FilterByProfile(req, t) ==
  Reply(200,
        SelectSeq(participants,
                  LAMBDA p : StrictEq(Get(p, "audienceProfile"), Str(req.params))))

\* The search string of one record, lower-cased: the three fields with a
\* space (32) between them.
SearchString(p) ==
  ToLowerCase(JsToString(Get(p, "name")) \o <<32>>
              \o JsToString(Get(p, "congressionalOffice")) \o <<32>>
              \o JsToString(Get(p, "audienceProfile")))

\* app.get('/api/participants/search')
Search(req, t) ==
  LET q == req.query
  IN IF ~Truthy(q) THEN Reply(200, participants)
     ELSE IF q.t # "string" /\ Len(participants) > 0 THEN Throw
     ELSE Reply(200,
                SelectSeq(participants,
                          LAMBDA p : Includes(SearchString(p), ToLowerCase(q.v))))

\* app.delete('/api/participants')
Clear(req, t) ==
  [threw |-> FALSE,
   response |-> [status |-> 200, type |-> "json",
                 body |-> [message |-> "All participants deleted"]],
   participants |-> <<>>,
   participantIdCounter |-> 1]

\* p.congressionalOffice?.split('|')[1] || 'Unknown'; 124 is '|'.
OfficeColumn(p) ==
  LET o == Get(p, "congressionalOffice")
      parts == IF o.t = "string" THEN Split(o.v, 124) ELSE <<>>
      second == IF Len(parts) >= 2 THEN Str(parts[2]) ELSE Undefined
  IN IF Truthy(second) THEN second.v ELSE S_Unknown

\* (v || []).join(sep) fails: v is truthy and has no join method.
HasNoJoin(v) == Truthy(v) /\ v.t # "array"

\* (v || []).join(sep)
JoinOrEmpty(v, sep) == IF Truthy(v) THEN Join(v.v, sep) ELSE <<>>

\* The three template literals that make one row of the CSV text, office being
\* the value of the local constant of that name.  The fields are separated by
\* '","' (34, 44, 34), the arrays joined with ', ' (44, 32) or '; ' (59, 32),
\* and the row ends with '"' and a line feed (34, 10).
CsvRow(p, office) ==
  JsToString(Get(p, "id")) \o <<44, 34>> \o JsToString(Get(p, "name"))
    \o <<34, 44, 34>> \o office
    \o <<34, 44, 34>> \o JsToString(Get(p, "audienceProfile"))
    \o <<34, 44, 34>> \o JsToString(Get(p, "primaryConcern"))
    \o <<34, 44, 34>> \o JoinOrEmpty(Get(p, "adjectives"), <<44, 32>>)
    \o <<34, 44, 34>> \o JoinOrEmpty(Get(p, "priorities"), <<59, 32>>)
    \o <<34, 44, 34>> \o JoinOrEmpty(Get(p, "selectedTraits"), <<44, 32>>)
    \o <<34, 44, 34>> \o JsToString(Get(p, "timestamp"))
    \o <<34, 10>>

CsvRowThrows(p) ==
  \/ HasNoSplit(p)
  \/ HasNoJoin(Get(p, "adjectives"))
  \/ HasNoJoin(Get(p, "priorities"))
  \/ HasNoJoin(Get(p, "selectedTraits"))

RECURSIVE CsvRows(_)
CsvRows(ps) ==
  IF Len(ps) = 0 THEN <<>>
  ELSE CsvRow(Head(ps), OfficeColumn(Head(ps))) \o CsvRows(Tail(ps))

\* app.get('/api/export/csv')
ExportCsv(req, t) ==
  IF \E i \in 1..Len(participants) : CsvRowThrows(participants[i]) THEN Throw
  ELSE [threw |-> FALSE,
        response |->
          [status |-> 200, type |-> "csv",
           filename |-> S_filenamePrefix \o Digits(t) \o S_filenameSuffix,
           body |-> CsvHeader \o CsvRows(participants)],
        participants |-> participants,
        participantIdCounter |-> participantIdCounter]

\* What process.uptime() may return: the time since the process started, in
\* seconds with a fraction.  The model counts it in thousandths of a second
\* (247 stands for 0.247); it is not tied to the wall clock.
UptimeReadings == {247, 61250}

\* app.get('/api/health'); u is what process.uptime() returns.
Health(req, t, u) ==
  Reply(200, [status |-> "healthy", participantCount |-> Len(participants), uptime |-> u])

\* The error middleware passing on the status the body parser gives its error.
ErrorMiddlewareKeepsStatus(req, t) ==
  [status |-> IF req.malformed THEN 400 ELSE 500, type |-> "json",
   body |-> [error |-> "Something went wrong!"]]

\* The error handling middleware.
ErrorMiddleware(req, t) ==
  [status |-> 500, type |-> "json", body |-> [error |-> "Something went wrong!"]]

\* What Express answers when no route matches: 404 and a page naming the
\* method and the path.
NoRoute(req, t) ==
  [threw |-> FALSE,
   response |-> [status |-> 404, type |-> "html",
                 body |-> [cannot |-> req.method, path |-> req.path]],
   participants |-> participants,
   participantIdCounter |-> participantIdCounter]

\* ------------------------------------------------------------- routing
\* A request path is the sequence of its segments, the texts between the
\* slashes as they stand in the URL: /api/participants/ is
\* <<"api", "participants", "">>.

Lit(s) == [lit |-> TRUE, seg |-> s]

Param == [lit |-> FALSE, seg |-> <<>>]

\* Position of the parameter in a pattern, 0 when it has none.
ParamIndex(pattern) ==
  IF \E i \in 1..Len(pattern) : ~pattern[i].lit
  THEN CHOOSE i \in 1..Len(pattern) : ~pattern[i].lit
  ELSE 0

\* app.get(pattern, handler), app.post(pattern, handler), app.delete(pattern, handler)
Route(method, pattern, name) ==
  [method |-> method, pattern |-> pattern, param |-> ParamIndex(pattern),
   handler |-> name]

\* The routes in the order the application registers them.
Routes ==
  << Route("GET", <<Lit(S_api), Lit(S_participants)>>, "ListAll"),
     Route("GET", <<Lit(S_api), Lit(S_participants), Param>>, "GetById"),
     Route("POST", <<Lit(S_api), Lit(S_participants)>>, "Insert"),
     Route("GET", <<Lit(S_api), Lit(S_statistics)>>, "Statistics"),
     Route("GET", <<Lit(S_api), Lit(S_participants), Lit(S_office), Param>>, "FilterByOffice"),
     Route("GET", <<Lit(S_api), Lit(S_participants), Lit(S_profile), Param>>, "FilterByProfile"),
     Route("GET", <<Lit(S_api), Lit(S_participants), Lit(S_search)>>, "Search"),
     Route("DELETE", <<Lit(S_api), Lit(S_participants)>>, "Clear"),
     Route("GET", <<Lit(S_api), Lit(S_export), Lit(S_csv)>>, "ExportCsv"),
     Route("GET", <<Lit(S_api), Lit(S_health)>>, "Health") >>

\* A code unit as a route compares it: routing ignores the case of the
\* letters a to z.
FoldCase(c) == IF 97 <= c /\ c <= 122 THEN c - 32 ELSE c

\* Segment seg of a path is the literal segment lit of a route, up to case.
SegmentMatches(lit, seg) ==
  \/ lit = seg
  \/ /\ Len(lit) = Len(seg)
     /\ \A k \in 1..Len(lit) : FoldCase(lit[k]) = FoldCase(seg[k])

\* The number of segments of the path, not counting the empty one after the
\* one trailing slash that routing lets pass.
SegmentCount(path) ==
  IF Len(path) > 0 /\ path[Len(path)] = <<>> THEN Len(path) - 1 ELSE Len(path)

\* The path fits the pattern of the route: as many segments, every literal
\* segment equal up to case, and a parameter taking one segment that is not
\* empty.
PathMatches(route, path) ==
  /\ Len(route.pattern) = SegmentCount(path)
  /\ \A i \in 1..Len(route.pattern) :
       IF route.pattern[i].lit
       THEN SegmentMatches(route.pattern[i].seg, path[i])
       ELSE path[i] # <<>>

\* The route answers requests of the method: a GET route also answers HEAD.
HandlesMethod(route, method) ==
  \/ route.method = method
  \/ route.method = "GET" /\ method = "HEAD"

\* The segment the parameter of the route takes, as it stands in the URL.
RawParam(route, path) ==
  IF route.param = 0 THEN <<>> ELSE path[route.param]

\* decodeURIComponent throws on the segment the parameter of the route takes.
ParamFails(route, req) == ~DecodeURIComponent(RawParam(route, req.path)).ok

\* Routing stops at the route: the path fits and either the route answers
\* the method, or its parameter cannot be decoded, which raises an error
\* whatever the method.
StopsAt(route, req) ==
  /\ PathMatches(route, req.path)
  /\ HandlesMethod(route, req.method) \/ ParamFails(route, req)

RECURSIVE FirstMatchFrom(_, _)
\* Index of the first route from the i-th on at which routing stops, 0 when
\* there is none.
FirstMatchFrom(req, i) ==
  IF i > Len(Routes) THEN 0
  ELSE IF StopsAt(Routes[i], req) THEN i
  ELSE FirstMatchFrom(req, i + 1)

\* Index of the first registered route that matches the request or raises on
\* its parameter, 0 when there is none.
FirstMatch(req) == FirstMatchFrom(req, 1)

\* req.params of the matched route: the decoded segment its parameter took.
ParamsOf(route, req) == DecodeURIComponent(RawParam(route, req.path)).v

RunHandler(name, req, t, u) ==
  CASE name = "ListAll" -> ListAll(req, t)
    [] name = "GetById" -> GetById(req, t)
    [] name = "Insert" -> Insert(req, t)
    [] name = "Statistics" -> Statistics(req, t)
    [] name = "FilterByOffice" -> FilterByOffice(req, t)
    [] name = "FilterByProfile" -> FilterByProfile(req, t)
    [] name = "Search" -> Search(req, t)
    [] name = "Clear" -> Clear(req, t)
    [] name = "ExportCsv" -> ExportCsv(req, t)
    [] name = "Health" -> Health(req, t, u)

\* The request never reaches the routes: cors() answers an OPTIONS request
\* and the body parser raises on a malformed body.
StoppedEarly(req) == req.method = "OPTIONS" \/ req.malformed

\* Index of the route the request is handed to, 0 when it reaches none.
RouteOf(req) == IF StoppedEarly(req) THEN 0 ELSE FirstMatch(req)

\* The name of the handler that runs when routing stops at the i-th route,
\* "" when none does.
HandlerAt(req, i) ==
  IF i = 0 THEN ""
  ELSE IF ParamFails(Routes[i], req) THEN ""
  ELSE Routes[i].handler

\* The error middleware answering for whatever raised.
Failed(req, t) ==
  [threw |-> TRUE, response |-> ErrorMiddleware(req, t),
   participants |-> participants,
   participantIdCounter |-> participantIdCounter]

\* What the chain answers once handler result r is known: the error
\* middleware takes over when the handler threw.
AfterHandler(r, req, t) ==
  IF r.threw THEN Failed(req, t) ELSE r

\* The request when routing stops at the i-th route, or at none when i = 0.
Routed(req, t, u, i) ==
  IF i = 0 THEN NoRoute(req, t)
  ELSE IF ParamFails(Routes[i], req) THEN Failed(req, t)
  ELSE AfterHandler(RunHandler(Routes[i].handler,
                               [req EXCEPT !.params = ParamsOf(Routes[i], req)], t, u),
                    req, t)

\* cors() answering an OPTIONS request itself: 204 and no content.
Preflight(req, t) ==
  [threw |-> FALSE,
   response |-> [status |-> 204, type |-> "none", body |-> <<>>],
   participants |-> participants,
   participantIdCounter |-> participantIdCounter]

\* One request through the middleware chain at time t: cors(), the body
\* parser (a malformed body raises), express.static (which finds no file
\* under /api and passes the request on), the first matching route, and the
\* error middleware for whatever was raised.
Respond(req, t, u, i) ==
  IF req.method = "OPTIONS" THEN Preflight(req, t)
  ELSE IF req.malformed THEN Failed(req, t)
  ELSE Routed(req, t, u, i)

\* The response as it leaves: a HEAD request is answered with the status and
\* headers of the GET, the content itself is not sent.
Send(req, res) ==
  res @@ [sent |-> req.method # "HEAD" /\ res.status # 204]

\* ------------------------------------------------------------- requests

Req(method, path, query, body, malformed) ==
  [method |-> method, path |-> path, params |-> <<>>, query |-> query,
   body |-> body, malformed |-> malformed]

NoRequest == Req("", <<>>, Undefined, EmptyObject, FALSE)

NoResponse == [status |-> 0, type |-> "none", body |-> <<>>, sent |-> FALSE]

B_empty == EmptyObject

\* name "Smith", office "34|a|b", profile "p1", concern "c1", adjectives
\* ["a", "b"], priorities ["m", "n"] and selectedTraits ["x"].
B_smith ==
  [name |-> Str(<<83, 109, 105, 116, 104>>),
   congressionalOffice |-> Str(<<51, 52, 124, 97, 124, 98>>),
   audienceProfile |-> Str(<<112, 49>>),
   primaryConcern |-> Str(<<99, 49>>),
   adjectives |-> Arr(<< <<97>>, <<98>> >>),
   priorities |-> Arr(<< <<109>>, <<110>> >>),
   selectedTraits |-> Arr(<< <<120>> >>)]

\* office "7|", profile "__proto__", concern "constructor".
B_proto ==
  [congressionalOffice |-> Str(<<55, 124>>),
   audienceProfile |-> Str(S_proto),
   primaryConcern |-> Str(S_constructor)]

B_num == [congressionalOffice |-> Num(5)]

\* name "N", and null for congressionalOffice, adjectives and selectedTraits.
B_null ==
  [name |-> Str(<<78>>),
   congressionalOffice |-> Null,
   adjectives |-> Null,
   selectedTraits |-> Null]

\* id 1, timestamp "t", name "C", office "56".
B_client ==
  [id |-> Num(1),
   timestamp |-> Str(<<116>>),
   name |-> Str(<<67>>),
   congressionalOffice |-> Str(<<53, 54>>)]

\* Request bodies that carry no id of their own.
PlainBodies == {B_empty, B_smith, B_proto, B_num, B_null}

\* Request bodies that carry an id and a timestamp of their own.
OwnIdBodies == {B_client}

\* Bodies of the requests that arrive concurrently.
ConcurrentBodies == {B_empty, B_client}

\* "1", "1a" and "%0B1" (an escaped vertical tab before "1"), as they stand in
\* the URL
IdStrings == { <<49>>, <<49, 97>>, <<37, 48, 66, 49>> }

\* "56" and "a|"
OfficeStrings == { <<53, 54>>, <<97, 124>> }

\* "P1", "%701" (an escaped "p" before "1") and "%" (which cannot be decoded)
ProfileStrings == { <<80, 49>>, <<37, 55, 48, 49>>, <<37>> }

\* No query and "SMITH"
Queries == { Undefined, Str(<<83, 77, 73, 84, 72>>) }

ParticipantsPath == <<S_api, S_participants>>

\* /API/participants/
UpperCaseSlashPath == << <<65, 80, 73>>, S_participants, <<>> >>

\* The requests for the whole collection: the plain GET, a HEAD, and a GET
\* with the path in another case and a trailing slash.
ListRequests ==
  { <<"GET", ParticipantsPath>>, <<"HEAD", ParticipantsPath>>,
    <<"GET", UpperCaseSlashPath>> }

\* The creating requests without an id of their own: every body on the plain
\* path, one body on the path in another case with a trailing slash.
PlainPosts ==
  { <<body, ParticipantsPath>> : body \in PlainBodies }
    \cup { <<B_empty, UpperCaseSlashPath>> }

\* The paths of the bulk delete: plain and with a trailing slash.
ClearPaths == { ParticipantsPath, ParticipantsPath \o << <<>> >> }

SearchPath == <<S_api, S_participants, S_search>>

\* ------------------------------------------------------------- actions

\* The readings of process.uptime() that matter to the handler: only Health
\* takes one.
ReadingsFor(name) == IF name = "Health" THEN UptimeReadings ELSE {0}

\* The server answers request req; fl is the list of requests still in flight.
Serve(req, fl) ==
  \E i \in {RouteOf(req)} : \E u \in ReadingsFor(HandlerAt(req, i)) :
  \E r \in {Respond(req, now, u, i)} :
    /\ participants' = r.participants
    /\ participantIdCounter' = r.participantIdCounter
    /\ request' = req
    /\ response' = Send(req, r.response)
    /\ handler' = HandlerAt(req, i)
    /\ assigned' = IF r.response.status = 201
                   THEN assigned \cup {Get(r.response.body, "id")}
                   ELSE assigned
    /\ inflight' = fl
    /\ now' = now

GetParticipants ==
  \E l \in ListRequests :
    Serve(Req(l[1], l[2], Undefined, EmptyObject, FALSE), inflight)

GetParticipantById ==
  \E id \in IdStrings :
    Serve(Req("GET", ParticipantsPath \o <<id>>, Undefined, EmptyObject, FALSE), inflight)

PostParticipants ==
  /\ Len(participants) < MaxParticipants
  /\ \E post \in PlainPosts :
       Serve(Req("POST", post[2], Undefined, post[1], FALSE), inflight)

PostWithOwnId ==
  /\ Len(participants) < MaxParticipants
  /\ \E body \in OwnIdBodies :
       Serve(Req("POST", ParticipantsPath, Undefined, body, FALSE), inflight)

PostMalformed == Serve(Req("POST", ParticipantsPath, Undefined, EmptyObject, TRUE), inflight)

GetStatistics ==
  Serve(Req("GET", <<S_api, S_statistics>>, Undefined, EmptyObject, FALSE), inflight)

GetByOffice ==
  \E o \in OfficeStrings :
    Serve(Req("GET", ParticipantsPath \o <<S_office, o>>, Undefined, EmptyObject, FALSE),
          inflight)

GetByProfile ==
  \E pr \in ProfileStrings :
    Serve(Req("GET", ParticipantsPath \o <<S_profile, pr>>, Undefined, EmptyObject, FALSE),
          inflight)

GetSearch ==
  \E q \in Queries : Serve(Req("GET", SearchPath, q, EmptyObject, FALSE), inflight)

DeleteParticipants ==
  \E path \in ClearPaths :
    Serve(Req("DELETE", path, Undefined, EmptyObject, FALSE), inflight)

\* A preflight request, as a browser sends it before a cross-origin request.
OptionsParticipants ==
  Serve(Req("OPTIONS", ParticipantsPath, Undefined, EmptyObject, FALSE), inflight)

\* DELETE /api/participants/1, for which no route is registered.
DeleteParticipantById ==
  Serve(Req("DELETE", ParticipantsPath \o << <<49>> >>, Undefined, EmptyObject, FALSE),
        inflight)

GetExportCsv ==
  Serve(Req("GET", <<S_api, S_export, S_csv>>, Undefined, EmptyObject, FALSE), inflight)

GetHealth ==
  Serve(Req("GET", <<S_api, S_health>>, Undefined, EmptyObject, FALSE), inflight)

\* A POST arrives; the body parser starts reading its body and yields.
PostArrive ==
  /\ Len(inflight) < MaxInflight
  /\ \E body \in ConcurrentBodies :
       /\ inflight' = Append(inflight, Req("POST", ParticipantsPath, Undefined, body, FALSE))
       /\ UNCHANGED <<participants, participantIdCounter, now, request, response, handler,
                      assigned>>

\* The body of one request in flight is complete: the rest of its chain runs.
PostBodyEnd ==
  /\ Len(participants) < MaxParticipants
  /\ \E i \in 1..Len(inflight) :
       Serve(inflight[i],
             SubSeq(inflight, 1, i - 1) \o SubSeq(inflight, i + 1, Len(inflight)))

\* Time passes while no request is being answered.
Tick ==
  /\ now < MaxClock
  /\ now' = now + 1
  /\ request' = NoRequest
  /\ response' = NoResponse
  /\ handler' = ""
  /\ UNCHANGED <<participants, participantIdCounter, inflight, assigned>>

Init ==
  /\ participants = <<>>
  /\ participantIdCounter = 1
  /\ now = 0
  /\ inflight = <<>>
  /\ request = NoRequest
  /\ response = NoResponse
  /\ handler = ""
  /\ assigned = {}

\* The requests that are neither a create nor the bulk delete.
OtherRequests ==
  \/ GetParticipants
  \/ GetParticipantById
  \/ GetStatistics
  \/ GetByOffice
  \/ GetByProfile
  \/ GetSearch
  \/ GetExportCsv
  \/ GetHealth
  \/ DeleteParticipantById
  \/ PostMalformed
  \/ OptionsParticipants

\* Requests one after the other, each answered before the next arrives.
Next == OtherRequests \/ PostParticipants \/ PostWithOwnId \/ DeleteParticipants \/ Tick

Spec == Init /\ [][Next]_vars

\* The same, with no request body carrying an id of its own.
NextPlain == OtherRequests \/ PostParticipants \/ DeleteParticipants \/ Tick

SpecPlain == Init /\ [][NextPlain]_vars

\* Requests arriving while the bodies of earlier POSTs are still being read.
NextConcurrent ==
  PostArrive \/ PostBodyEnd \/ DeleteParticipants \/ GetParticipants \/ Tick

SpecConcurrent == Init /\ [][NextConcurrent]_vars

\* ------------------------------------------------------------- properties

\* The step answers a request: it is neither the arrival of a POST nor a tick.
ServedStep == Len(inflight') <= Len(inflight) /\ now' = now

GenericError == [error |-> "Something went wrong!"]

NotFoundError == [error |-> "Participant not found"]

\* C1: every Insert returns and stores, as last record, a record whose id is
\* the counter value the store drew for it and whose timestamp is the store's
\* time, whatever id and timestamp the request body carries.
C1_InsertAssignsIdAndTimestamp ==
  (request.method = "POST" /\ response.status = 201) =>
    /\ StrictEq(Get(response.body, "id"), Num(participantIdCounter - 1))
    /\ StrictEq(Get(response.body, "timestamp"), Str(ToISOString(now)))
    /\ Len(participants) > 0
    /\ participants[Len(participants)] = response.body

\* C2 as claimed: the id an Insert returns is strictly greater than every id
\* any Insert returned before it, also across a Clear.
C2_IdsNeverReused ==
  [][(ServedStep /\ response'.status = 201) =>
       \A a \in assigned : a.v < response'.body.id.v]_vars

\* C2 as amended: the ids of the records inserted since the last Clear are
\* strictly increasing in insertion order (so pairwise distinct) and below the
\* counter, and the numbering restarts at 1 once the store is cleared.
C2_IdsIncreaseBetweenClears ==
  /\ \A i, j \in 1..Len(participants) :
       i < j => participants[i].id.v < participants[j].id.v
  /\ \A i \in 1..Len(participants) : participants[i].id.v < participantIdCounter
  /\ (participants = <<>> => participantIdCounter = 1)

\* An Insert after a Clear has been given id 1 again (id 2 was handed out before).
C2_Witness ==
  /\ request.method = "POST"
  /\ response.status = 201
  /\ Len(participants) = 1
  /\ participants[1].id = Num(1)
  /\ Num(2) \in assigned

\* What the Search operation yields for query q on the current store.
C3_Expected(q) ==
  IF ~Truthy(q) THEN participants
  ELSE SelectSeq(participants,
                 LAMBDA p : Includes(SearchString(p), ToLowerCase(q.v)))

\* C3: GET /api/participants/search is answered 200 with the array the
\* Search operation yields for its q.
C3_SearchRouteAnswers ==
  (request.method = "GET" /\ request.path = SearchPath) =>
    /\ response.status = 200
    /\ response.body = C3_Expected(request.query)

\* The request is a GET of /api/participants/<id string>.
C4_IsGetById ==
  /\ request.method = "GET"
  /\ Len(request.path) = 3
  /\ SubSeq(request.path, 1, 2) = ParticipantsPath
  /\ DecodeURIComponent(request.path[3]).ok

\* s is the decimal notation of an integer.
C4_IsIntegerString(s) ==
  /\ Len(s) > 0
  /\ \A i \in 1..Len(s) : DigitValue(s[i], 10) >= 0

\* C4: lookup by id answers 200 with the first record carrying the id when the
\* id string is an integer some record carries, and 404 with the fixed error
\* body for every other id string.
C4_GetByIdNotFound ==
  C4_IsGetById =>
    LET s == DecodeURIComponent(request.path[3]).v
        hits == IF C4_IsIntegerString(s)
                THEN SelectSeq(participants,
                       LAMBDA p : StrictEq(Get(p, "id"), Num(DigitPrefixValue(s, 10, 0))))
                ELSE <<>>
    IN IF Len(hits) > 0
       THEN response.status = 200 /\ response.body = hits[1]
       ELSE response.status = 404 /\ response.body = NotFoundError

\* C5: a Clear leaves the collection empty and the counter at 1; ListAll
\* returns the collection; and the k-th Insert after a Clear (or after the
\* start) draws counter value k and returns a record whose id is k, so that N
\* Inserts after a Clear return the ids 1..N in order.
C5_ClearRestartsIds ==
  [][ServedStep =>
       /\ handler' = "Clear" =>
            /\ response'.status = 200
            /\ participants' = <<>>
            /\ participantIdCounter' = 1
       /\ handler' = "ListAll" =>
            /\ response'.status = 200
            /\ response'.body = participants'
       /\ response'.status = 201 =>
            /\ participantIdCounter = Len(participants) + 1
            /\ participantIdCounter' = participantIdCounter + 1
            /\ StrictEq(Get(response'.body, "id"), Num(Len(participants) + 1))]_vars

C6_Key(p, field) == JsToString(Get(p, field))

\* Each distinct value of the field mapped to the number of records holding it.
C6_Expected(field) ==
  [k \in {C6_Key(participants[i], field) : i \in 1..Len(participants)} |->
     Num(Cardinality({i \in 1..Len(participants) : C6_Key(participants[i], field) = k}))]

\* C6: whenever statistics answers 200, it gives the collection size, the two
\* distributions counting the records per value, and the rounded mean of the
\* selectedTraits lengths (0 on the empty store).
C6_StatisticsCounts ==
  (request.method = "GET" /\ request.path = <<S_api, S_statistics>>
     /\ response.status = 200) =>
    /\ response.body.totalParticipants = Len(participants)
    /\ response.body.profileDistribution = C6_Expected("audienceProfile")
    /\ response.body.concernDistribution = C6_Expected("primaryConcern")
    /\ response.body.avgTraitsSelected =
         (IF Len(participants) = 0 THEN 0
          ELSE MathRound(TotalTraits(participants), Len(participants)))

\* The office text after the first '|' (all of it), as C7 claims it.
C7_AfterFirstPipe(p) ==
  LET o == Get(p, "congressionalOffice")
  IN IF o.t \in {"undefined", "null"} THEN S_Unknown
     ELSE IF o.t # "string" \/ IndexOf(o.v, 124) = 0 THEN <<>>
     ELSE SubSeq(o.v, IndexOf(o.v, 124) + 1, Len(o.v))

RECURSIVE C7_RowsAsClaimed(_)
C7_RowsAsClaimed(ps) ==
  IF Len(ps) = 0 THEN <<>>
  ELSE CsvRow(Head(ps), C7_AfterFirstPipe(Head(ps))) \o C7_RowsAsClaimed(Tail(ps))

C7_IsExport == request.method = "GET" /\ request.path = <<S_api, S_export, S_csv>>

\* C7 as claimed: an export that succeeds is the header row and one row per
\* record in order, the Office column being everything after the first '|'
\* and Unknown exactly when congressionalOffice is absent.
C7_OfficeAfterFirstPipe ==
  (C7_IsExport /\ response.status = 200) =>
    response.body = CsvHeader \o C7_RowsAsClaimed(participants)

\* C8: a step changes the collection or the counter only by an Insert, which
\* appends the returned record and adds one to the counter, or by a Clear,
\* which empties the collection and sets the counter to 1.
C8_OnlyInsertAndClearMutate ==
  [][ServedStep =>
       IF handler' = "Insert"
       THEN /\ participants' = Append(participants, response'.body)
            /\ participantIdCounter' = participantIdCounter + 1
       ELSE IF handler' = "Clear"
       THEN participants' = <<>> /\ participantIdCounter' = 1
       ELSE UNCHANGED <<participants, participantIdCounter>>]_vars

\* A read request answered on a store of two records.
C8_Witness ==
  /\ request.method = "GET"
  /\ response.status = 200
  /\ Len(participants) = 2
  /\ participantIdCounter = 3

\* The request goes to a handler that calls split or includes on every
\* congressionalOffice, and some record holds one that has no such method.
C9_HandlerThrows(h) ==
  /\ h \in {"Statistics", "FilterByOffice", "ExportCsv"}
  /\ \E i \in 1..Len(participants) :
       Get(participants[i], "congressionalOffice").t = "number"

\* The request reaches a route whose parameter cannot be decoded.
C9_ParamUndecodable(req, h) ==
  /\ h = ""
  /\ ~StoppedEarly(req)
  /\ FirstMatch(req) # 0
  /\ ParamFails(Routes[FirstMatch(req)], req)

\* C9: a request whose processing raises (a malformed body, a parameter that
\* cannot be decoded, a handler that throws) is answered 500 with the fixed
\* body, and every 500 leaves the collection and the counter as they were.
C9_FailuresLeaveStoreUntouched ==
  [][ServedStep =>
       /\ (\/ request'.malformed /\ request'.method # "OPTIONS"
           \/ C9_ParamUndecodable(request', handler')
           \/ C9_HandlerThrows(handler')) => response'.status = 500
       /\ response'.status = 500 =>
            /\ response'.type = "json"
            /\ response'.body = GenericError
            /\ UNCHANGED <<participants, participantIdCounter>>]_vars

\* A handler threw on a store of two records.
C9_Witness ==
  /\ C9_HandlerThrows(handler)
  /\ response.status = 500
  /\ Len(participants) = 2

\* C10: whatever requests are in flight, the counter is the collection size
\* plus 1, and the completion of one POST in flight appends exactly its
\* record, whose id is the counter value it draws, draws that value once, and
\* keeps the other requests in flight; the ids of k concurrent POSTs are then
\* k consecutive counter values, pairwise distinct.
C10_HandlersAreAtomic ==
  [][/\ participantIdCounter' = Len(participants') + 1
     /\ Len(inflight') < Len(inflight) =>
          /\ Len(inflight') = Len(inflight) - 1
          /\ \E i \in 1..Len(inflight) :
               /\ request' = inflight[i]
               /\ inflight' = SubSeq(inflight, 1, i - 1)
                                \o SubSeq(inflight, i + 1, Len(inflight))
          /\ participants' = Append(participants, response'.body)
          /\ participantIdCounter' = participantIdCounter + 1
          /\ StrictEq(Get(response'.body, "id"), Num(participantIdCounter))]_vars

====
